---- MODULE Spec2Model ----
(***************************************************************************)
(* Model of the ledger-anchoring core of atharvsj/fabric_blockchain:       *)
(*   - the canonical hashers (utils/hash.js, the user controller and the   *)
(*     migration script),                                                  *)
(*   - the BlockchainService ledger adapters (mock, fabric, polygon),      *)
(*   - the record and user controllers with their off-chain tables,        *)
(*   - the sc_blockchain write routes and the signer's nonce,              *)
(*   - the migration script's storeOnPolygon retry loop,                   *)
(*   - the FabricService gateway session.                                  *)
(* Each subsystem has its own specification over the shared variables; a   *)
(* specification leaves the other subsystems' variables at their initial   *)
(* values.                                                                 *)
(*                                                                         *)
(* SHA-256 is modelled as an ideal (collision-free) hash: Sha256Hex(s) is  *)
(* the canonical string itself, so two digests are equal exactly when the  *)
(* strings fed to the hash are equal.                                      *)
(***************************************************************************)
EXTENDS Integers, Sequences, FiniteSets, TLC

VARIABLES
    hd1, hd2,      \* hashers: the two structured values under test
    hop,           \* hashers: which hasher has been applied ("none" before)
    hout1, hout2,  \* hashers: its result on hd1 and on hd2
    hexpected,     \* hashers: the expectedHash given to verifyHash
    hverified,     \* hashers: what verifyHash returned
    fsGateway,     \* FabricService.gateway: 0 for null, else the gateway's id
    fsNetwork,     \* FabricService.network: 0, or the gateway it came from
    fsContract,    \* FabricService.contract: 0, or the gateway it came from
    gw,            \* every Gateway object's state, by the call that made it
    fpc,           \* each submit/evaluate call's position
    fnet,          \* the gateway a call's pending getNetwork was made on
    fused,         \* the gateway whose contract a call invoked (0: none)
    fclosedBy,     \* the call whose disconnect() closed a gateway (0: none)
    fres,          \* each call's outcome: "none", "ok" or "error"
    rstack,        \* storeOnPolygon: the active invocations, outermost first
    rphase,        \* storeOnPolygon: "idle", "fetching", "throw" or "done"
    rerrNet,       \* whether the error being thrown matches a network pattern
    rdispatches,   \* fetch calls made to /api/submit-change so far
    rresult,       \* "none", "ok" or "error"
    rkinds,        \* the kinds of response the backend has given so far
    qpc,           \* sc_blockchain API: each write request's position
    qkind,         \* its route: "submit-change", "approve" or "reject"
    qid,           \* the change id in the body of an approve or reject
    qarrivals,     \* the requests in the order they arrived
    qnonce,        \* the nonce of a request's transaction (-1: none yet)
    qfailed,       \* whether the request's contract call threw
    qresp,         \* the HTTP status sent (0: none yet)
    txpool,        \* requests whose transaction is sent and not yet mined
    minedNonce,    \* the signer's next nonce on the chain
    ledgerLog,     \* the requests whose transactions were mined, in order
    changes,       \* the contract's change log, ids from 0
    auditStatus,   \* blockchain_status of the audit row of each change id
    bmode,         \* backend: BLOCKCHAIN_MODE of the blockchain service
    mockLedger,    \* the in-memory Map of mock mode: recordId -> hash
    worldState,    \* the chaincode's world state: recordId -> hash
    records,       \* the records table: id -> row
    recCreated,    \* the data_json of each successful createRecord
    vres,          \* the last verifyRecord response for each record
    users,         \* the row of the user in ci_erp_users (JNull: no row)
    chainRecords,  \* the rows of user_chain_records, in insertion order
    storeCalls,    \* the ledger Store calls made for the user, in order
    uresp,         \* the last response of a user operation
    uverify,       \* the last verifyUser response
    upc,           \* each overlapping updateUser request's position
    uhash,         \* the hash it computed from the row its UPDATE returned
    ustored,       \* whether its ledger store returned
    ustatus,       \* the HTTP status it answered (0: none yet)
    currentNonce,  \* nonce manager: currentNonce (-1 for null)
    nonceInitialized, \* nonce manager: nonceInitialized
    npc,           \* each nonce-managed submission's position
    nread,         \* the count its initNonce read from the provider
    nheld,         \* the nonce getAndIncrementNonce gave it (-1: none)
    nseen,         \* the pending count of the network at that moment
    nexternal      \* transactions the wallet has sent from elsewhere

hashVars == <<hd1, hd2, hop, hout1, hout2, hexpected, hverified>>

fabricVars ==
    <<fsGateway, fsNetwork, fsContract, gw, fpc, fnet, fused, fclosedBy, fres>>

retryVars == <<rstack, rphase, rerrNet, rdispatches, rresult, rkinds>>

routeReqVars ==
    <<qpc, qkind, qid, qarrivals, qnonce, qfailed, qresp, txpool, ledgerLog,
      auditStatus>>
routeCtlVars == <<routeReqVars, minedNonce>>
nonceVars ==
    <<currentNonce, nonceInitialized, npc, nread, nheld, nseen, nexternal>>
routeVars == <<routeCtlVars, changes>>
ledgerVars == <<bmode, mockLedger, worldState>>
recordVars == <<records, recCreated, vres>>
userVars == <<users, chainRecords, storeCalls, uresp, uverify>>
updateVars == <<upc, uhash, ustored, ustatus>>
backendVars == <<ledgerVars, recordVars, userVars, updateVars>>

vars == <<hashVars, fabricVars, retryVars, routeVars, backendVars, nonceVars>>

notHashVars == <<fabricVars, retryVars, routeVars, backendVars, nonceVars>>
notFabricVars == <<hashVars, retryVars, routeVars, backendVars, nonceVars>>
notRetryVars == <<hashVars, fabricVars, routeVars, backendVars, nonceVars>>
notRouteVars == <<hashVars, fabricVars, retryVars, backendVars, nonceVars>>
\* the backend's actions write the ledger of the active mode themselves
notRecordVars ==
    <<hashVars, fabricVars, retryVars, routeCtlVars, userVars, updateVars,
      nonceVars>>
notUserVars ==
    <<hashVars, fabricVars, retryVars, routeCtlVars, recordVars, updateVars,
      nonceVars>>
\* the nonce manager's submissions advance the signer's nonce on the chain
notNonceVars ==
    <<hashVars, fabricVars, retryVars, routeReqVars, changes, backendVars>>

(***************************************************************************)
(* Bounds of the model.                                                    *)
(***************************************************************************)
MaxNum == 2        \* numeric leaves range over 1..MaxNum
NumCalls == 2      \* FabricService calls that may overlap
NumReqs == 2       \* write requests to the sc_blockchain API
MaxStoreCalls == 3 \* ledger Store calls made by the user operations
NumNonceCalls == 2 \* submissions that take their nonce from the nonce manager
MaxExternal == 1   \* transactions the wallet sends from outside the API
NumUpdates == 2    \* updateUser requests that may overlap

(***************************************************************************)
(* JSON values.  An object keeps its properties in insertion order, as a   *)
(* JavaScript object does: kids is the sequence of [k, val] properties,    *)
(* with pairwise distinct keys.  An array keeps its items in kids with     *)
(* k = "".                                                                 *)
(***************************************************************************)
JNull == [t |-> "null", n |-> 0, s |-> "", kids |-> <<>>]
JNum(n) == [t |-> "num", n |-> n, s |-> "", kids |-> <<>>]
JStr(s) == [t |-> "str", n |-> 0, s |-> s, kids |-> <<>>]
JObj(kids) == [t |-> "obj", n |-> 0, s |-> "", kids |-> kids]
JArr(kids) == [t |-> "arr", n |-> 0, s |-> "", kids |-> kids]
KV(k, v) == [k |-> k, val |-> v]

\* the JavaScript values undefined, NaN and Infinity
JUndefined == [t |-> "undefined", n |-> 0, s |-> "", kids |-> <<>>]
JNaN == [t |-> "NaN", n |-> 0, s |-> "", kids |-> <<>>]
JInfinity == [t |-> "Infinity", n |-> 0, s |-> "", kids |-> <<>>]

\* Object.keys(obj): the own property names in insertion order
ObjectKeys(obj) == [i \in 1..Len(obj.kids) |-> obj.kids[i].k]

HasKey(obj, key) == \E i \in 1..Len(obj.kids) : obj.kids[i].k = key

\* obj[key]
Get(obj, key) == obj.kids[CHOOSE i \in 1..Len(obj.kids) : obj.kids[i].k = key].val

\* delete obj[key]
DeleteKey(obj, key) ==
    [obj EXCEPT !.kids = SelectSeq(obj.kids, LAMBDA p : p.k # key)]

(***************************************************************************)
(* Array.prototype.sort() without a comparator orders strings by UTF-16    *)
(* code units.  KeyOrder lists the property names the model uses in that   *)
(* order; KeyLess compares two of them.                                    *)
(***************************************************************************)
KeyOrder ==
    << "a", "a\":1,\"b", "action", "b", "deleted_at", "details", "email",
       "last_login_ip", "password", "previous_data", "user_id", "x" >>

KeyRank(k) == CHOOSE i \in 1..Len(KeyOrder) : KeyOrder[i] = k

KeyLess(a, b) == KeyRank(a) < KeyRank(b)

\* a sort that leaves the keys in insertion order
SortKeysUnsorted(keys) == keys

\* Object.keys(obj).sort()
SortKeys(keys) == SortSeq(keys, KeyLess)

RECURSIVE JoinComma(_)
JoinComma(strs) ==
    IF strs = <<>> THEN ""
    ELSE IF Len(strs) = 1 THEN strs[1]
    ELSE strs[1] \o "," \o JoinComma(Tail(strs))

\* the escaping of JSON.stringify: a quotation mark gets a backslash (the
\* one sample string of the model that holds a character to escape)
JSONEscape(s) == IF s = "a\":1,\"b" THEN "a\\\":1,\\\"b" ELSE s

\* JSON.stringify of a string: escaped and quoted
JSONQuote(s) == "\"" \o JSONEscape(s) \o "\""

\* JSON.stringify of a value that is neither an object nor an array; NaN
\* and the infinities are serialized as null
JSONstringifyScalar(v) ==
    IF v.t = "num" THEN ToString(v.n)
    ELSE IF v.t = "str" THEN JSONQuote(v.s)
    ELSE "null"

\* crypto.createHash('sha256').update(s).digest('hex'), as an ideal hash
Sha256Hex(s) == s

(***************************************************************************)
(* utils/hash.js                                                           *)
(***************************************************************************)
RECURSIVE canonicalizeJSON(_)
canonicalizeJSON(obj) ==
    IF obj.t \in {"null", "undefined"} THEN "null"
    ELSE IF obj.t \notin {"obj", "arr"} THEN JSONstringifyScalar(obj)
    ELSE IF obj.t = "arr"
    THEN "[" \o JoinComma([i \in 1..Len(obj.kids) |->
                              canonicalizeJSON(obj.kids[i].val)]) \o "]"
    ELSE LET sortedKeys == SortKeys(ObjectKeys(obj))
             pairs == [i \in 1..Len(sortedKeys) |->
                          "\"" \o sortedKeys[i] \o "\":" \o
                          canonicalizeJSON(Get(obj, sortedKeys[i]))]
         IN "{" \o JoinComma(pairs) \o "}"

computeHash(data) == "0x" \o Sha256Hex(canonicalizeJSON(data))

\* a verifyHash that takes the hash in either letter case of its prefix
verifyHashCaseless(data, expectedHash) ==
    \/ computeHash(data) = expectedHash
    \/ "0X" \o Sha256Hex(canonicalizeJSON(data)) = expectedHash

\* verifyHash: computedHash === expectedHash
verifyHash(data, expectedHash) == computeHash(data) = expectedHash

(***************************************************************************)
(* JSON.stringify(value, propertyList): with an array as the replacer,     *)
(* every object at every depth is serialized with the properties named in  *)
(* the list only, in the list's order; array items are all kept.           *)
(***************************************************************************)
RECURSIVE JSONstringifyList(_, _)
JSONstringifyList(v, plist) ==
    IF v.t = "arr"
    THEN "[" \o JoinComma([i \in 1..Len(v.kids) |->
                              JSONstringifyList(v.kids[i].val, plist)]) \o "]"
    ELSE IF v.t = "obj"
    THEN LET present == SelectSeq(plist, LAMBDA k :
                            HasKey(v, k) /\ Get(v, k).t # "undefined")
             pairs == [i \in 1..Len(present) |->
                          JSONQuote(present[i]) \o ":" \o
                          JSONstringifyList(Get(v, present[i]), plist)]
         IN "{" \o JoinComma(pairs) \o "}"
    ELSE JSONstringifyScalar(v)

\* a computeHash that leaves every field of the row in
userCanonicalJsonKeepAll(data) ==
    JSONstringifyList(data, SortKeys(ObjectKeys(data)))

\* the string the user controller's computeHash feeds to SHA-256
userCanonicalJson(data) ==
    LET dataForHash == DeleteKey(DeleteKey(data, "password"), "last_login_ip")
    IN JSONstringifyList(dataForHash, SortKeys(ObjectKeys(dataForHash)))

\* computeHash of the user controller
userComputeHash(data) == "0x" \o Sha256Hex(userCanonicalJson(data))

\* the migration's computeHash of { ...user, details } without the
\* sensitive fields
migrationHash(user) ==
    LET dataJson == JObj(user.kids \o <<KV("details", JNull)>>)
        dataForHash == DeleteKey(DeleteKey(dataJson, "password"),
                                 "last_login_ip")
    IN "0x" \o Sha256Hex(JSONstringifyList(dataForHash,
                            SortKeys(ObjectKeys(dataForHash))))

(***************************************************************************)
(* Sample values for the hashers.                                          *)
(***************************************************************************)
Leaves == {JNum(n) : n \in 1..MaxNum} \cup {JNull}

\* the objects over keys a, b with leaf values, in every insertion order
FlatObjects ==
    {JObj(<<>>)}
    \cup {JObj(<<KV(k, v)>>) : k \in {"a", "b"}, v \in Leaves}
    \cup {JObj(<<KV("a", v), KV("b", w)>>) : v \in Leaves, w \in Leaves}
    \cup {JObj(<<KV("b", w), KV("a", v)>>) : v \in Leaves, w \in Leaves}

TwoKeyObjects == {o \in FlatObjects : Len(o.kids) = 2}

NestedObjects ==
    {JObj(<<KV("x", o)>>) : o \in TwoKeyObjects}
    \cup {JArr(<<KV("", o)>>) : o \in TwoKeyObjects}

\* rows of ci_erp_users, in the column order of the table and reversed
UserRows ==
    {JObj(<<KV("user_id", JStr("501")), KV("email", JStr(e)),
            KV("password", JStr(p)), KV("last_login_ip", JStr(ip))>>) :
        e \in {"j@x", "k@x"}, p \in {"p1", "p2"}, ip \in {"ip1", "ip2"}}

\* deletionData of deleteUser
DeletionRecords ==
    {JObj(<<KV("user_id", JStr("501")), KV("deleted_at", JStr("t1")),
            KV("action", JStr("DELETE")), KV("previous_data", u)>>) :
        u \in UserRows}

\* records with a property name that holds quotation marks, an undefined
\* property, or a number that is not finite, at the top or one level down
OddObjects ==
    {JObj(<<KV("a\":1,\"b", JNum(2))>>)}
    \cup {JObj(<<KV("a", v), KV("b", JNum(2))>>) :
              v \in {JUndefined, JNaN, JInfinity}}
    \cup {JObj(<<KV("x", JObj(<<KV("a", v), KV("b", JNum(2))>>))>>) :
              v \in {JUndefined, JNaN, JInfinity}}

HashInputs ==
    FlatObjects \cup NestedObjects \cup UserRows \cup DeletionRecords
    \cup OddObjects

(***************************************************************************)
(* The hashers as a state machine: two values are drawn, then one of the   *)
(* hashers is applied to both.                                             *)
(***************************************************************************)
InitHashIdle ==
    /\ hd1 = JNull /\ hd2 = JNull /\ hop = "none" /\ hout1 = "" /\ hout2 = ""
    /\ hexpected = "" /\ hverified = FALSE

InitHash ==
    /\ hd1 \in HashInputs
    /\ hd2 \in HashInputs
    /\ hop = "none"
    /\ hout1 = ""
    /\ hout2 = ""
    /\ hexpected = ""
    /\ hverified = FALSE

\* computeHash of utils/hash.js on both values
ApplyComputeHash ==
    /\ hop = "none"
    /\ hop' = "computeHash"
    /\ hout1' = computeHash(hd1)
    /\ hout2' = computeHash(hd2)
    /\ UNCHANGED <<hd1, hd2, hexpected, hverified>>
    /\ UNCHANGED notHashVars

\* computeHash of the user controller on both values (row objects)
ApplyUserComputeHash ==
    /\ hop = "none"
    /\ hd1.t = "obj" /\ hd2.t = "obj"
    /\ hop' = "userComputeHash"
    /\ hout1' = userComputeHash(hd1)
    /\ hout2' = userComputeHash(hd2)
    /\ UNCHANGED <<hd1, hd2, hexpected, hverified>>
    /\ UNCHANGED notHashVars

\* the hashing of processUser on both values (rows of ci_erp_users)
ApplyMigrationHash ==
    /\ hop = "none"
    /\ hd1 \in UserRows /\ hd2 \in UserRows
    /\ hop' = "migrationHash"
    /\ hout1' = migrationHash(hd1)
    /\ hout2' = migrationHash(hd2)
    /\ UNCHANGED <<hd1, hd2, hexpected, hverified>>
    /\ UNCHANGED notHashVars

\* verifyHash of utils/hash.js on the first value; the hashes offered are
\* the record's own digest, the digest of the other record, its digest
\* with the prefix in capitals, without the prefix, and the prefix alone
ApplyVerifyHash ==
    /\ hop = "none"
    /\ hop' = "verifyHash"
    /\ hout1' = computeHash(hd1)
    /\ hout2' = computeHash(hd2)
    /\ \E h \in {computeHash(hd1), computeHash(hd2),
                 "0X" \o Sha256Hex(canonicalizeJSON(hd1)),
                 Sha256Hex(canonicalizeJSON(hd1)), "0x"} :
          /\ hexpected' = h
          /\ hverified' = verifyHash(hd1, h)
    /\ UNCHANGED <<hd1, hd2>>
    /\ UNCHANGED notHashVars

NextHash ==
    \/ ApplyComputeHash
    \/ ApplyUserComputeHash
    \/ ApplyMigrationHash
    \/ ApplyVerifyHash

(***************************************************************************)
(* Relations between structured values, defined without the hashers.       *)
(***************************************************************************)
KeySet(o) == {o.kids[i].k : i \in 1..Len(o.kids)}

\* equal after key-order normalization at every nesting level
RECURSIVE SameUpToKeyOrder(_, _)
SameUpToKeyOrder(a, b) ==
    /\ a.t = b.t
    /\ a.n = b.n
    /\ a.s = b.s
    /\ IF a.t = "obj"
       THEN /\ KeySet(a) = KeySet(b)
            /\ \A k \in KeySet(a) : SameUpToKeyOrder(Get(a, k), Get(b, k))
       ELSE /\ Len(a.kids) = Len(b.kids)
            /\ \A i \in 1..Len(a.kids) :
                   SameUpToKeyOrder(a.kids[i].val, b.kids[i].val)

Denylist == {"password", "last_login_ip"}

\* two snapshots with the same properties that differ in the value of a
\* property outside the denylist, at some nesting depth
RECURSIVE DiffersInField(_, _)
DiffersInField(a, b) ==
    /\ a.t = "obj" /\ b.t = "obj"
    /\ KeySet(a) = KeySet(b)
    /\ \E k \in KeySet(a) \ Denylist :
          LET x == Get(a, k)  y == Get(b, k)
          IN IF x.t = "obj" /\ y.t = "obj"
             THEN DiffersInField(x, y)
             ELSE x # y

\* two snapshots with the same properties in the same order that are equal
\* in every property outside the denylist, at every nesting depth
RECURSIVE EqualOutsideDenylist(_, _)
EqualOutsideDenylist(a, b) ==
    IF a.t = "obj" /\ b.t = "obj"
    THEN /\ ObjectKeys(a) = ObjectKeys(b)
         /\ \A k \in KeySet(a) \ Denylist :
                EqualOutsideDenylist(Get(a, k), Get(b, k))
    ELSE a = b

(***************************************************************************)
(* C22.  Denylist insensitivity: two user snapshots that differ only in    *)
(* the values of the fields password and last_login_ip get the same digest *)
(* from the user controller's computeHash and from the hashing of the      *)
(* migration's processUser.                                                *)
(***************************************************************************)
C22_DenylistInsensitivity ==
    (/\ hop \in {"userComputeHash", "migrationHash"}
     /\ EqualOutsideDenylist(hd1, hd2)) => hout1 = hout2

\* two rows that differ in both denylisted fields, hashed by the controller
C22_Witness ==
    /\ hop = "userComputeHash"
    /\ hd1 \in UserRows /\ hd2 \in UserRows
    /\ Get(hd1, "password") # Get(hd2, "password")
    /\ Get(hd1, "last_login_ip") # Get(hd2, "last_login_ip")
    /\ EqualOutsideDenylist(hd1, hd2)
    /\ hout1 = hout2

(***************************************************************************)
(* C23.  The canonical form is injective: two records that differ after    *)
(* key-order normalization (another key set, or another value at some key, *)
(* at any depth) get different canonical strings from canonicalizeJSON,    *)
(* also when a key holds quotation marks and when one value is null and    *)
(* the other undefined.                                                    *)
(***************************************************************************)
C23_CanonicalInjective ==
    (hop = "computeHash" /\ ~SameUpToKeyOrder(hd1, hd2)) =>
        canonicalizeJSON(hd1) # canonicalizeJSON(hd2)

\* whether a non-finite number occurs in a value, at any depth
RECURSIVE HasNonFinite(_)
HasNonFinite(v) ==
    \/ v.t \in {"NaN", "Infinity"}
    \/ \E i \in 1..Len(v.kids) : HasNonFinite(v.kids[i].val)

(***************************************************************************)
(* C24.  Non-finite numbers are rejected: computeHash of a record that     *)
(* holds NaN or an infinite number at any depth fails and returns no       *)
(* digest; it does not return the digest of the record with null in the    *)
(* place of that number.                                                   *)
(***************************************************************************)
C24_NonFiniteRejected ==
    (hop = "computeHash" /\ HasNonFinite(hd1)) => hout1 = "error"

(***************************************************************************)
(* C25.  Verify round trip and exact match: verifyHash(d, computeHash(d))  *)
(* is true for every record d, and verifyHash(d, h) is false for every h   *)
(* that is not character for character computeHash(d), such as one that    *)
(* differs in letter case or is a prefix of it.                            *)
(***************************************************************************)
C25_VerifyExactMatch ==
    hop = "verifyHash" => (hverified <=> hexpected = computeHash(hd1))

\* verifyHash has refused the digest written with its prefix in capitals
C25_Witness ==
    /\ hop = "verifyHash"
    /\ hexpected = "0X" \o Sha256Hex(canonicalizeJSON(hd1))
    /\ ~hverified

(***************************************************************************)
(* C2.  Key-order independence: two records with the same keys and the    *)
(* same values at every nesting level, built in different insertion        *)
(* orders, get the same digest from computeHash of utils/hash.js.          *)
(***************************************************************************)
C2_KeyOrderIndependence ==
    (hop = "computeHash" /\ SameUpToKeyOrder(hd1, hd2)) => hout1 = hout2

\* two records that differ in insertion order only, at a nested level, hashed
C2_Witness ==
    /\ hop = "computeHash"
    /\ hd1 # hd2
    /\ hd1.t = "obj" /\ Len(hd1.kids) = 1 /\ hd1.kids[1].k = "x"
    /\ SameUpToKeyOrder(hd1, hd2)
    /\ hout1 = hout2

(***************************************************************************)
(* C3.  Content sensitivity of the audit hasher: two snapshots that differ *)
(* in the value of a non-denylisted field at any nesting depth give        *)
(* different canonical strings (hence different digests) in the user       *)
(* controller's computeHash.                                               *)
(***************************************************************************)
IsEntitySnapshot(d) == d.t = "obj" /\ HasKey(d, "user_id")

C3_ContentSensitivity ==
    (/\ hop = "userComputeHash"
     /\ IsEntitySnapshot(hd1) /\ IsEntitySnapshot(hd2)
     /\ DiffersInField(hd1, hd2)) => hout1 # hout2

(***************************************************************************)
(* FabricService (fabric.service.js): one singleton whose gateway, network *)
(* and contract fields are shared by every submitTransaction and           *)
(* evaluateTransaction call.  A call is a sequence of steps separated by   *)
(* its awaits; steps of overlapping calls interleave.  The gateway a call  *)
(* creates carries the call's id.  Calls into the fabric-network library   *)
(* (Gateway.connect, getNetwork, the transaction itself) may succeed or    *)
(* throw; a read through a null field throws a TypeError.                  *)
(***************************************************************************)
FabricCalls == 1..NumCalls

InitFabric ==
    /\ fsGateway = 0
    /\ fsNetwork = 0
    /\ fsContract = 0
    /\ gw = [c \in FabricCalls |-> "none"]
    /\ fpc = [c \in FabricCalls |-> "idle"]
    /\ fnet = [c \in FabricCalls |-> 0]
    /\ fused = [c \in FabricCalls |-> 0]
    /\ fclosedBy = [c \in FabricCalls |-> 0]
    /\ fres = [c \in FabricCalls |-> "none"]

\* disconnect(), called by call c: closes whatever this.gateway holds now
disconnect(c) ==
    IF fsGateway # 0
    THEN /\ gw' = [gw EXCEPT ![fsGateway] = "disconnected"]
         /\ fclosedBy' = [fclosedBy EXCEPT ![fsGateway] = c]
         /\ fsGateway' = 0
         /\ fsNetwork' = 0
         /\ fsContract' = 0
    ELSE UNCHANGED <<gw, fclosedBy, fsGateway, fsNetwork, fsContract>>

\* the catch block of submitTransaction / evaluateTransaction
CatchAndThrow(c) ==
    /\ disconnect(c)
    /\ fpc' = [fpc EXCEPT ![c] = "done"]
    /\ fres' = [fres EXCEPT ![c] = "error"]
    /\ UNCHANGED <<fnet, fused>>

\* submitTransaction / evaluateTransaction is called: connect() runs up to
\* its first await (getWallet, wallet.get)
FsCall(c) ==
    /\ fpc[c] = "idle"
    /\ fpc' = [fpc EXCEPT ![c] = "wallet"]
    /\ UNCHANGED <<fsGateway, fsNetwork, fsContract, gw, fnet, fused,
                   fclosedBy, fres>>
    /\ UNCHANGED notFabricVars

\* connect(): the identity is looked up; if present this.gateway becomes a
\* new Gateway and gateway.connect is awaited, else connect throws
FsNewGateway(c) ==
    /\ fpc[c] = "wallet"
    /\ \E identity \in BOOLEAN :
          IF identity
          THEN /\ fsGateway' = c
               /\ gw' = [gw EXCEPT ![c] = "created"]
               /\ fpc' = [fpc EXCEPT ![c] = "connecting"]
               /\ UNCHANGED <<fsNetwork, fsContract, fnet, fused, fclosedBy,
                              fres>>
          ELSE CatchAndThrow(c)
    /\ UNCHANGED notFabricVars

\* connect(): gateway.connect settles; on success getNetwork is called on
\* whatever this.gateway holds now
FsGatewayConnected(c) ==
    /\ fpc[c] = "connecting"
    /\ \E ok \in BOOLEAN :
          IF ok /\ fsGateway # 0
          THEN /\ gw' = [gw EXCEPT ![c] =
                            IF gw[c] = "created" THEN "connected" ELSE gw[c]]
               /\ fnet' = [fnet EXCEPT ![c] = fsGateway]
               /\ fpc' = [fpc EXCEPT ![c] = "network"]
               /\ UNCHANGED <<fsGateway, fsNetwork, fsContract, fused,
                              fclosedBy, fres>>
          ELSE IF ok
          THEN \* this.gateway is null: the gateway is connected, and
               \* this.gateway.getNetwork throws a TypeError
               /\ gw' = [gw EXCEPT ![c] =
                            IF gw[c] = "created" THEN "connected" ELSE gw[c]]
               /\ fpc' = [fpc EXCEPT ![c] = "done"]
               /\ fres' = [fres EXCEPT ![c] = "error"]
               /\ UNCHANGED <<fsGateway, fsNetwork, fsContract, fnet, fused,
                              fclosedBy>>
          ELSE CatchAndThrow(c)
    /\ UNCHANGED notFabricVars

\* connect(): getNetwork settles; this.network and this.contract are set
FsGotNetwork(c) ==
    /\ fpc[c] = "network"
    /\ \E ok \in BOOLEAN :
          IF ok /\ gw[fnet[c]] = "connected"
          THEN /\ fsNetwork' = fnet[c]
               /\ fsContract' = fnet[c]
               /\ fpc' = [fpc EXCEPT ![c] = "connected"]
               /\ UNCHANGED <<fsGateway, gw, fnet, fused, fclosedBy, fres>>
          ELSE CatchAndThrow(c)
    /\ UNCHANGED notFabricVars

\* after await this.connect(): this.contract.submitTransaction (or
\* evaluateTransaction) is called on whatever this.contract holds now
FsInvoke(c) ==
    /\ fpc[c] = "connected"
    /\ IF fsContract # 0
       THEN /\ fused' = [fused EXCEPT ![c] = fsContract]
            /\ fpc' = [fpc EXCEPT ![c] = "invoking"]
            /\ UNCHANGED <<fsGateway, fsNetwork, fsContract, gw, fnet,
                           fclosedBy, fres>>
       ELSE CatchAndThrow(c)
    /\ UNCHANGED notFabricVars

\* the transaction settles: this.disconnect() on both paths, then the call
\* returns the result or rethrows
FsSettled(c) ==
    /\ fpc[c] = "invoking"
    /\ \E ok \in BOOLEAN :
          IF ok /\ gw[fused[c]] = "connected"
          THEN /\ disconnect(c)
               /\ fpc' = [fpc EXCEPT ![c] = "done"]
               /\ fres' = [fres EXCEPT ![c] = "ok"]
               /\ UNCHANGED <<fnet, fused>>
          ELSE CatchAndThrow(c)
    /\ UNCHANGED notFabricVars

NextFabric ==
    \E c \in FabricCalls :
        \/ FsCall(c)
        \/ FsNewGateway(c)
        \/ FsGatewayConnected(c)
        \/ FsGotNetwork(c)
        \/ FsInvoke(c)
        \/ FsSettled(c)

(***************************************************************************)
(* C9.  Scoped session release: a call that has returned has closed the    *)
(* gateway it opened, on the success path and on every failure path, so    *)
(* that once all calls have returned no gateway is left connected.         *)
(***************************************************************************)
C9_SessionReleased ==
    \A c \in FabricCalls : fpc[c] = "done" => gw[c] # "connected"

(***************************************************************************)
(* C10.  Session isolation: a call invokes its transaction on the contract *)
(* obtained from its own connect, and a gateway is closed only by the      *)
(* disconnect of the call that opened it.                                  *)
(***************************************************************************)
C10_SessionIsolation ==
    \A c \in FabricCalls :
        /\ fused[c] \in {0, c}
        /\ fclosedBy[c] \in {0, c}

(***************************************************************************)
(* storeOnPolygon of the migration script: one top-level request and the   *)
(* recursive invocations it makes.  Every invocation calls fetch once.     *)
(* The backend's answer to a fetch is one of                               *)
(*   ok                      the response is ok and result.success is set  *)
(*   [http, retryable, net]  an error response; retryable and net tell     *)
(*                           whether its text matches the list of          *)
(*                           temporary errors and the list of network      *)
(*                           errors                                        *)
(*   [exception, net]        fetch or response.json() throws               *)
(* A frame of rstack is [rc, pos]: its retryCount, and whether its pending *)
(* recursive call was made inside its try block or inside its catch block. *)
(***************************************************************************)
MAX_RETRIES == 3

OkAnswer == [kind |-> "ok", retryable |-> FALSE, net |-> FALSE]

Answers ==
    {OkAnswer}
    \cup [kind : {"http"}, retryable : BOOLEAN, net : BOOLEAN]
    \cup [kind : {"exception"}, retryable : {FALSE}, net : BOOLEAN]

\* the answers the code retries: its text matches one of the two lists
Transient(a) == a.kind # "ok" /\ (a.retryable \/ a.net)

InitRetry ==
    /\ rstack = <<>>
    /\ rphase = "idle"
    /\ rerrNet = FALSE
    /\ rdispatches = 0
    /\ rresult = "none"
    /\ rkinds = {}

\* a retry test that stops one retry early
CanRetryOneLess(retryCount) == retryCount < MAX_RETRIES - 1

\* retryCount < MAX_RETRIES
CanRetry(retryCount) == retryCount < MAX_RETRIES

\* a new invocation storeOnPolygon(userId, hash, rc) runs up to its fetch
Invoke(stack, rc) ==
    /\ rstack' = Append(stack, [rc |-> rc, pos |-> "try"])
    /\ rdispatches' = rdispatches + 1
    /\ rphase' = "fetching"
    /\ UNCHANGED <<rerrNet, rresult>>

\* a catch block that takes every error for a network error
isNetworkErrorAny(net) == TRUE

\* isNetworkError: the message includes 'fetch failed', 'ECONNRESET' or
\* 'ETIMEDOUT'
isNetworkError(net) == net

\* the catch block of the frame on top of stack receives an error
Catch(stack, net) ==
    LET top == stack[Len(stack)]
    IN IF isNetworkError(net) /\ CanRetry(top.rc)
       THEN Invoke([stack EXCEPT ![Len(stack)].pos = "catch"], top.rc + 1)
       ELSE /\ rstack' = SubSeq(stack, 1, Len(stack) - 1)
            /\ rphase' = "throw"
            /\ rerrNet' = net
            /\ UNCHANGED <<rdispatches, rresult>>

\* the top-level call storeOnPolygon(userId, hash)
RpCall ==
    /\ rphase = "idle"
    /\ Invoke(rstack, 0)
    /\ UNCHANGED rkinds
    /\ UNCHANGED notRetryVars

\* the fetch of the innermost invocation is answered
RpAnswer ==
    /\ rphase = "fetching"
    /\ \E a \in Answers :
          LET top == rstack[Len(rstack)]
          IN /\ rkinds' = rkinds \cup {a}
             /\ IF a.kind = "ok"
                THEN /\ rstack' = <<>>
                     /\ rphase' = "done"
                     /\ rresult' = "ok"
                     /\ UNCHANGED <<rerrNet, rdispatches>>
                ELSE IF a.kind = "http" /\ a.retryable /\ CanRetry(top.rc)
                THEN Invoke(rstack, top.rc + 1)
                ELSE Catch(rstack, a.net)
    /\ UNCHANGED notRetryVars

\* an error thrown by an invocation reaches its caller: the caller's try
\* block catches it if the recursive call was made there
RpThrow ==
    /\ rphase = "throw"
    /\ IF rstack = <<>>
       THEN /\ rphase' = "done"
            /\ rresult' = "error"
            /\ UNCHANGED <<rstack, rerrNet, rdispatches>>
       ELSE IF rstack[Len(rstack)].pos = "try"
       THEN Catch(rstack, rerrNet)
       ELSE /\ rstack' = SubSeq(rstack, 1, Len(rstack) - 1)
            /\ UNCHANGED <<rphase, rerrNet, rdispatches, rresult>>
    /\ UNCHANGED rkinds
    /\ UNCHANGED notRetryVars

NextRetry == RpCall \/ RpAnswer \/ RpThrow

\* every answer so far was a temporary error response that matches no
\* network pattern
AllHttpTemporary ==
    rkinds # {} /\ rkinds \subseteq {[kind |-> "http", retryable |-> TRUE, net |-> FALSE]}

\* every answer so far was a network-level exception
AllNetworkException ==
    rkinds # {} /\ rkinds \subseteq {[kind |-> "exception", retryable |-> FALSE, net |-> TRUE]}

AllTransient == rkinds # {} /\ \A a \in rkinds : Transient(a)

\* every answer so far was a failure whose text matches no transient
\* pattern: a refusal by the backend or a malformed input
AllTerminal ==
    rkinds # {} /\ \A a \in rkinds : a.kind # "ok" /\ ~Transient(a)

(***************************************************************************)
(* C18.  Terminal failures are not retried: a store request whose failure  *)
(* matches none of the transient patterns is dispatched exactly once and   *)
(* its failure propagates to the caller without a retry.                   *)
(***************************************************************************)
C18_TerminalNotRetried ==
    AllTerminal =>
        /\ rdispatches = 1
        /\ rphase = "done" => rresult = "error"

\* a request refused by the backend has ended
C18_Witness ==
    /\ rphase = "done"
    /\ AllTerminal
    /\ rresult = "error"
    /\ rdispatches = 1

(***************************************************************************)
(* C8 as stated.  Retry bound: when the backend fails transiently on every *)
(* attempt, one store request makes exactly 3 dispatch calls and then ends *)
(* in a terminal failure.                                                  *)
(***************************************************************************)
C8_ExactlyThreeDispatches ==
    (rphase = "done" /\ AllTransient) => (rdispatches = 3 /\ rresult = "error")

(***************************************************************************)
(* C8, with the count the code gives.  When the backend fails transiently  *)
(* on every attempt,                                                       *)
(* one store request ends in a terminal failure after at least             *)
(* MAX_RETRIES + 1 = 4 and at most 15 dispatch calls, and after exactly 4  *)
(* when every failure is a temporary error response that matches no        *)
(* network pattern or every failure is a network-level exception; the      *)
(* number of dispatches never exceeds these bounds while it runs.          *)
(***************************************************************************)
C8_RetryBound ==
    /\ (rphase = "done" /\ AllTransient) =>
          /\ rresult = "error"
          /\ MAX_RETRIES + 1 <= rdispatches
    /\ rdispatches <= 15
    /\ (AllHttpTemporary \/ AllNetworkException) =>
          /\ rdispatches <= MAX_RETRIES + 1
          /\ rphase = "done" => rdispatches = MAX_RETRIES + 1

\* a request that failed with temporary error responses only has ended
C8_Witness ==
    /\ rphase = "done"
    /\ AllHttpTemporary
    /\ rresult = "error"
    /\ rdispatches = MAX_RETRIES + 1

(***************************************************************************)
(* C28.  Dispatch bound under mixed failures: whatever mix and order of    *)
(* transient error responses and network-level exceptions the attempts     *)
(* meet, one top-level storeOnPolygon request makes at most                *)
(* MAX_RETRIES + 1 = 4 HTTP dispatches before it returns or throws.        *)
(***************************************************************************)
C28_MixedDispatchBound == rdispatches <= MAX_RETRIES + 1

(***************************************************************************)
(* The sc_blockchain API (routes/contractRoutes.js, config/blockchain.js). *)
(* POST /submit-change, /approve and /reject each call the contract method *)
(* through the one wallet signer and await tx.wait().  The routes pass no  *)
(* nonce: the signer reads the account's pending transaction count when it *)
(* populates the transaction, sends it, and the chain mines the signer's   *)
(* transactions in nonce order.  Requests are handled concurrently: the    *)
(* steps of a handler are separated by its awaits.                         *)
(* The contract keeps a log of changes with ids 0, 1, 2, ...; each change  *)
(* has a status 0 (Pending), 1 (Approved) or 2 (Rejected).                 *)
(***************************************************************************)
QReqs == 1..NumReqs
Routes == {"submit-change", "approve", "reject"}
ChangeIds == 0..(NumReqs - 1)

InitRoutes ==
    /\ qpc = [r \in QReqs |-> "idle"]
    /\ qkind = [r \in QReqs |-> "none"]
    /\ qid = [r \in QReqs |-> 0]
    /\ qarrivals = <<>>
    /\ qnonce = [r \in QReqs |-> -1]
    /\ qfailed = [r \in QReqs |-> FALSE]
    /\ qresp = [r \in QReqs |-> 0]
    /\ txpool = {}
    /\ minedNonce = 0
    /\ ledgerLog = <<>>
    /\ changes = <<>>
    /\ auditStatus = [i \in ChangeIds |-> "none"]

\* provider.getTransactionCount(wallet.address, "pending")
RECURSIVE pendingCountFrom(_)
pendingCountFrom(n) ==
    IF \E r \in txpool : qnonce[r] = n THEN pendingCountFrom(n + 1) ELSE n

getTransactionCount == pendingCountFrom(minedNonce)

\* whether the contract refuses approve(id) / reject(id): no such change,
\* or the change is no longer pending
Refused(route, id) ==
    /\ route # "submit-change"
    /\ \/ id >= Len(changes)
       \/ changes[id + 1].status # 0

\* the change log after the transaction of request r is executed
contractApply(r) ==
    IF qkind[r] = "submit-change"
    THEN Append(changes, [userId |-> r, hash |-> r, status |-> 0])
    ELSE [changes EXCEPT ![qid[r] + 1].status =
             IF qkind[r] = "approve" THEN 1 ELSE 2]

\* a route that marks the audit row before the ledger call is made
statusWrittenOptimistic(route, old) ==
    IF old = "none" \/ route = "submit-change" THEN old
    ELSE IF route = "approve" THEN "A" ELSE "R"

\* what the approve and reject routes write to user_chain_records: the
\* handlers hold no database access and write nothing
statusWritten(route, old) == old

\* the catch block of a route: res.status(500).json({ error })
RouteCatch(r) ==
    /\ qfailed' = [qfailed EXCEPT ![r] = TRUE]
    /\ qresp' = [qresp EXCEPT ![r] = 500]
    /\ qpc' = [qpc EXCEPT ![r] = "done"]

\* a request arrives: 400 on missing parameters, else the contract method
\* is called and starts populating its transaction
QArrive(r) ==
    /\ qpc[r] = "idle"
    /\ \E route \in Routes, id \in ChangeIds, complete \in BOOLEAN :
          /\ qkind' = [qkind EXCEPT ![r] = route]
          /\ qid' = [qid EXCEPT ![r] = id]
          /\ qarrivals' = Append(qarrivals, r)
          /\ IF complete
             THEN /\ qpc' = [qpc EXCEPT ![r] = "called"]
                  /\ auditStatus' =
                        [auditStatus EXCEPT ![id] = statusWritten(route, @)]
                  /\ UNCHANGED qresp
             ELSE /\ qpc' = [qpc EXCEPT ![r] = "done"]
                  /\ qresp' = [qresp EXCEPT ![r] = 400]
                  /\ UNCHANGED auditStatus
    /\ UNCHANGED <<qnonce, qfailed, txpool, minedNonce, ledgerLog, changes>>
    /\ UNCHANGED notRouteVars

\* the signer populates the transaction: the call is simulated (a refused
\* call throws here) and the nonce is the pending transaction count
QPopulate(r) ==
    /\ qpc[r] = "called"
    /\ \E rpcOk \in BOOLEAN :
          IF rpcOk /\ ~Refused(qkind[r], qid[r])
          THEN /\ qnonce' = [qnonce EXCEPT ![r] = getTransactionCount]
               /\ qpc' = [qpc EXCEPT ![r] = "signed"]
               /\ UNCHANGED <<qfailed, qresp>>
          ELSE /\ RouteCatch(r)
               /\ UNCHANGED qnonce
    /\ UNCHANGED <<qkind, qid, qarrivals, txpool, minedNonce, ledgerLog,
                   changes, auditStatus>>
    /\ UNCHANGED notRouteVars

\* the signed transaction is sent: the node refuses a nonce that is used
\* up or already taken by a transaction in its pool
QSend(r) ==
    /\ qpc[r] = "signed"
    /\ \E rpcOk \in BOOLEAN :
          IF /\ rpcOk
             /\ qnonce[r] >= minedNonce
             /\ \A o \in txpool : qnonce[o] # qnonce[r]
          THEN /\ txpool' = txpool \cup {r}
               /\ qpc' = [qpc EXCEPT ![r] = "submitted"]
               /\ UNCHANGED <<qfailed, qresp>>
          ELSE /\ RouteCatch(r)
               /\ UNCHANGED txpool
    /\ UNCHANGED <<qkind, qid, qarrivals, qnonce, minedNonce, ledgerLog,
                   changes, auditStatus>>
    /\ UNCHANGED notRouteVars

\* the transaction with the signer's next nonce is mined and tx.wait()
\* settles: the contract executes it or reverts; on success the route
\* answers 200 with the txHash (after a submit-change the backend saves
\* its audit row with blockchain_status 'P')
QMined(r) ==
    /\ qpc[r] = "submitted"
    /\ r \in txpool
    /\ qnonce[r] = minedNonce
    /\ minedNonce' = minedNonce + 1
    /\ txpool' = txpool \ {r}
    /\ ledgerLog' = Append(ledgerLog, r)
    /\ IF Refused(qkind[r], qid[r])
       THEN /\ RouteCatch(r)
            /\ UNCHANGED <<changes, auditStatus>>
       ELSE /\ changes' = contractApply(r)
            /\ qresp' = [qresp EXCEPT ![r] = 200]
            /\ qpc' = [qpc EXCEPT ![r] = "done"]
            /\ auditStatus' =
                  IF qkind[r] = "submit-change"
                  THEN [auditStatus EXCEPT ![Len(changes)] = "P"]
                  ELSE auditStatus
            /\ UNCHANGED qfailed
    /\ UNCHANGED <<qkind, qid, qarrivals, qnonce>>
    /\ UNCHANGED notRouteVars

\* the network drops a pending transaction from its pool without mining
\* it; the handler stays in await tx.wait(), which is given no timeout
QDropped(r) ==
    /\ qpc[r] = "submitted"
    /\ r \in txpool
    /\ txpool' = txpool \ {r}
    /\ UNCHANGED <<qpc, qkind, qid, qarrivals, qnonce, qfailed, qresp,
                   minedNonce, ledgerLog, changes, auditStatus>>
    /\ UNCHANGED notRouteVars

NextRoutes ==
    \E r \in QReqs :
        QArrive(r) \/ QPopulate(r) \/ QSend(r) \/ QMined(r) \/ QDropped(r)

\* every step of a handler that can be taken is taken in the end, and a
\* transaction that stays in the pool is mined
FairRoutes ==
    \A r \in QReqs :
        /\ WF_vars(QPopulate(r))
        /\ WF_vars(QSend(r))
        /\ WF_vars(QMined(r))

\* the position of request r in the arrival order
ArrivalIndex(r) == CHOOSE i \in 1..Len(qarrivals) : qarrivals[i] = r

C16_StatusSynchronised ==
    \A r \in QReqs :
        (qkind[r] \in {"approve", "reject"} /\ qresp[r] = 200) =>
            auditStatus[qid[r]] = IF qkind[r] = "approve" THEN "A" ELSE "R"

(***************************************************************************)
(* C19.  No silent hang: every ledger call (submit-change, approve,        *)
(* reject) that has reached the contract ends with a result or a failure,  *)
(* even if the network never confirms its transaction.                     *)
(***************************************************************************)
C19_NoSilentHang ==
    \A r \in QReqs : (qpc[r] = "submitted") ~> (qpc[r] = "done")

(***************************************************************************)
(* C6.  Single-flight writes: at most one write transaction of the signer  *)
(* is submitted and unresolved at any time.                                *)
(***************************************************************************)
C6_SingleFlight ==
    Cardinality({r \in QReqs : qpc[r] = "submitted"}) <= 1

(***************************************************************************)
(* C7.  Sequencer ordering: the nonces given to concurrent write calls are *)
(* strictly increasing in arrival order and contiguous, and the ledger     *)
(* observes the writes in arrival order.                                   *)
(***************************************************************************)
C7_SequencerOrdering ==
    LET assigned == {r \in QReqs : qnonce[r] # -1}
    IN /\ \A r1, r2 \in assigned :
             ArrivalIndex(r1) < ArrivalIndex(r2) => qnonce[r1] < qnonce[r2]
       /\ \A i, j \in 1..Len(ledgerLog) :
             i < j => ArrivalIndex(ledgerLog[i]) < ArrivalIndex(ledgerLog[j])

(***************************************************************************)
(* The backend's blockchain service (services/blockchain.service.js, in    *)
(* its mock/fabric and its mock/polygon form).  An id is the sequence of   *)
(* the hexadecimal digits of its text, dashes removed.                     *)
(***************************************************************************)
Modes == {"mock", "fabric", "polygon"}

Zeros(n) == [i \in 1..n |-> 0]

\* uuidv4(): the 13th hexadecimal digit of a version-4 UUID is 4
Uuid(d14, d15, d16) == Zeros(12) \o <<4, d14, d15, d16>> \o Zeros(16)

\* two UUIDs that agree in their first 15 hexadecimal digits
RecordIds == {Uuid(0, 1, 10), Uuid(0, 1, 11)}

\* the user_id 501 as the text "501"
UserId == <<5, 0, 1>>

LedgerKeys == RecordIds \cup {UserId}

RECURSIVE parseIntHex(_)
parseIntHex(digits) ==
    IF digits = <<>> THEN 0
    ELSE 16 * parseIntHex(SubSeq(digits, 1, Len(digits) - 1))
         + digits[Len(digits)]

\* uuid.replace(/-/g, '').substring(0, 15), parsed in base 16
uuidToNumericId(uuid) ==
    parseIntHex(SubSeq(uuid, 1, IF Len(uuid) < 15 THEN Len(uuid) ELSE 15))

InitLedger ==
    /\ bmode \in Modes
    /\ mockLedger = [k \in LedgerKeys |-> "none"]
    /\ worldState = [k \in LedgerKeys |-> "none"]

InitLedgerIdle ==
    /\ bmode = "mock"
    /\ mockLedger = [k \in LedgerKeys |-> "none"]
    /\ worldState = [k \in LedgerKeys |-> "none"]

\* whether storeRecordHash(recordId, hash) returns rather than throws:
\* _storeOnMock always does; the chaincode's StoreRecordHash throws when
\* the record exists; the network (Fabric or the sc_blockchain API) may fail
storeSucceeds(recordId, networkOk) ==
    CASE bmode = "mock" -> TRUE
      [] bmode = "fabric" -> networkOk /\ worldState[recordId] = "none"
      [] bmode = "polygon" -> networkOk

\* a mock ledger that keeps the first entry of a record, as the chaincode does
storeRecordHashOnce(recordId, hash, ok) ==
    /\ mockLedger' =
          IF ok /\ bmode = "mock" /\ mockLedger[recordId] = "none"
          THEN [mockLedger EXCEPT ![recordId] = hash] ELSE mockLedger
    /\ worldState' =
          IF ok /\ bmode = "fabric"
          THEN [worldState EXCEPT ![recordId] = hash] ELSE worldState
    /\ changes' =
          IF ok /\ bmode = "polygon"
          THEN Append(changes, [userId |-> uuidToNumericId(recordId),
                                hash |-> hash, status |-> 0])
          ELSE changes
    /\ UNCHANGED bmode

\* the ledgers after storeRecordHash(recordId, hash) with outcome ok; in
\* polygon mode the hash is posted to /submit-change under the numeric id
storeRecordHash(recordId, hash, ok) ==
    /\ mockLedger' =
          IF ok /\ bmode = "mock"
          THEN [mockLedger EXCEPT ![recordId] = hash] ELSE mockLedger
    /\ worldState' =
          IF ok /\ bmode = "fabric"
          THEN [worldState EXCEPT ![recordId] = hash] ELSE worldState
    /\ changes' =
          IF ok /\ bmode = "polygon"
          THEN Append(changes, [userId |-> uuidToNumericId(recordId),
                                hash |-> hash, status |-> 0])
          ELSE changes
    /\ UNCHANGED bmode

\* GET /get-change/:id, contract.changes(id): the change with that id
getChange(id) ==
    IF id < Len(changes) THEN changes[id + 1].hash ELSE ""

\* getRecordHash(recordId): the stored hash, "none" for null
getRecordHash(recordId) ==
    CASE bmode = "mock" -> mockLedger[recordId]
      [] bmode = "fabric" -> worldState[recordId]
      [] bmode = "polygon" ->
            IF getChange(uuidToNumericId(recordId)) = "" THEN "none"
            ELSE getChange(uuidToNumericId(recordId))

\* the hash the ledger of the active mode holds for an entity: the entry
\* of the mock Map or of the world state, or the hash of the last change
\* submitted under the entity's numeric id; "none" when there is none
RECURSIVE lastChangeOf(_, _)
lastChangeOf(numericId, n) ==
    IF n = 0 THEN "none"
    ELSE IF changes[n].userId = numericId THEN changes[n].hash
    ELSE lastChangeOf(numericId, n - 1)

storedOnLedger(recordId) ==
    CASE bmode = "mock" -> mockLedger[recordId]
      [] bmode = "fabric" -> worldState[recordId]
      [] bmode = "polygon" ->
            lastChangeOf(uuidToNumericId(recordId), Len(changes))

\* what the read of the ledger gives when the backend answers, cannot be
\* reached ("network": fetch or the gateway throws) or answers with an
\* error status ("http5xx", of the sc_blockchain API): the stored hash,
\* "none" for null, "throw" for an exception.  _getFromPolygon returns
\* null when !response.ok
Backends == {"ok", "network", "http5xx"}

getRecordHashFrom(recordId, backend) ==
    CASE bmode = "mock" -> getRecordHash(recordId)
      [] bmode = "fabric" ->
            IF backend = "ok" THEN getRecordHash(recordId) ELSE "throw"
      [] bmode = "polygon" ->
            IF backend = "network" THEN "throw"
            ELSE IF backend = "http5xx" THEN "none"
            ELSE getRecordHash(recordId)

verifyRecordHash(recordId, hash) ==
    LET stored == getRecordHash(recordId)
    IN IF stored = "none"
       THEN [valid |-> FALSE, reason |-> "Record not found on blockchain"]
       ELSE IF stored = hash
       THEN [valid |-> TRUE, reason |-> "Hash matches on-chain record"]
       ELSE [valid |-> FALSE,
             reason |-> "Hash mismatch - data may have been tampered"]

(***************************************************************************)
(* The record controller (controllers/record.controller.js).               *)
(***************************************************************************)
\* the data_json values of the requests
RecordData ==
    {JObj(<<KV("a", JNum(1)), KV("b", JNum(2))>>),
     JObj(<<KV("b", JNum(2)), KV("a", JNum(1))>>),
     JObj(<<KV("a", JNum(2)), KV("b", JNum(2))>>)}

NoRow == [row |-> FALSE, data_json |-> JNull, hash_value |-> "null"]
NoResponse ==
    [status |-> 0, valid |-> FALSE, reason |-> "", data |-> JNull,
     backend |-> "ok", onLedger |-> "none"]

InitRecords ==
    /\ records = [id \in RecordIds |-> NoRow]
    /\ recCreated = [id \in RecordIds |-> JNull]
    /\ vres = [id \in RecordIds |-> NoResponse]

\* POST /api/records: the row is inserted, the hash computed and stored on
\* the ledger, and the row updated with the hash; a store that throws
\* leaves the row without a hash and answers 500
createRecord(id, data_json, networkOk) ==
    /\ ~records[id].row
    /\ LET hash == computeHash(data_json)
           ok == storeSucceeds(id, networkOk)
       IN /\ storeRecordHash(id, hash, ok)
          /\ records' = [records EXCEPT ![id] =
                [row |-> TRUE, data_json |-> data_json,
                 hash_value |-> IF ok THEN hash ELSE "null"]]
          /\ recCreated' =
                [recCreated EXCEPT ![id] = IF ok THEN data_json ELSE @]
    /\ UNCHANGED vres
    /\ UNCHANGED notRecordVars

\* the data_json of a row is changed in the database, outside the API
TamperRecord(id, data_json) ==
    /\ records[id].row
    /\ records[id].data_json # data_json
    /\ records' = [records EXCEPT ![id].data_json = data_json]
    /\ UNCHANGED <<recCreated, vres, ledgerVars, changes>>
    /\ UNCHANGED notRecordVars

\* GET /api/records/:id/verify: the hash of the row's current data_json is
\* compared with the ledger's; a ledger that cannot be reached answers 500
verifyRecord(id, backend) ==
    /\ records[id].row
    /\ LET currentHash == computeHash(records[id].data_json)
           stored == getRecordHashFrom(id, backend)
           verificationResult ==
               IF stored = getRecordHash(id)
               THEN verifyRecordHash(id, currentHash)
               ELSE [valid |-> FALSE,
                     reason |-> "Record not found on blockchain"]
           met == IF bmode = "mock" THEN "ok" ELSE backend
       IN vres' = [vres EXCEPT ![id] =
             IF stored # "throw"
             THEN [status |-> 200, valid |-> verificationResult.valid,
                   reason |-> verificationResult.reason,
                   data |-> records[id].data_json,
                   backend |-> met, onLedger |-> storedOnLedger(id)]
             ELSE [status |-> 500, valid |-> FALSE, reason |-> "",
                   data |-> JNull,
                   backend |-> met, onLedger |-> storedOnLedger(id)]]
    /\ UNCHANGED <<records, recCreated, ledgerVars, changes>>
    /\ UNCHANGED notRecordVars

NextRecords ==
    \E id \in RecordIds :
        \/ \E d \in RecordData, networkOk \in BOOLEAN :
              createRecord(id, d, networkOk)
        \/ \E d \in RecordData : TamperRecord(id, d)
        \/ \E backend \in Backends : verifyRecord(id, backend)

(***************************************************************************)
(* C1.  Tamper detection: after createRecord succeeds, verifyRecord on the *)
(* unchanged snapshot reports valid = true, and on a snapshot whose        *)
(* content has changed it reports valid = false with a mismatch reason,    *)
(* on whichever ledger backend is active.                                  *)
(***************************************************************************)
C1_TamperDetection ==
    \A id \in RecordIds :
        (recCreated[id] # JNull /\ vres[id].status = 200) =>
            IF SameUpToKeyOrder(vres[id].data, recCreated[id])
            THEN vres[id].valid
            ELSE /\ ~vres[id].valid
                 /\ vres[id].reason =
                       "Hash mismatch - data may have been tampered"

(***************************************************************************)
(* C13.  Smart-contract round trip: in polygon mode, after                 *)
(* storeRecordHash(id, d) has succeeded and no later store was made for    *)
(* the entity, getRecordHash(id) returns an entry whose hash is d: a       *)
(* change is read under the identifier it was recorded under.              *)
(***************************************************************************)
C13_PolygonRoundTrip ==
    \A id \in RecordIds :
        (bmode = "polygon" /\ recCreated[id] # JNull) =>
            getRecordHash(id) = computeHash(recCreated[id])

(***************************************************************************)
(* C14.  Not-found is distinguishable from transient failure: when the     *)
(* read of the ledger fails transiently (network error, HTTP 5xx from the  *)
(* blockchain API) verification surfaces a failure, and it reports "not    *)
(* found on blockchain" only for an entity with no digest on the ledger.   *)
(***************************************************************************)
C14_NotFoundVsTransient ==
    \A id \in RecordIds :
        vres[id].status # 0 =>
            /\ vres[id].backend # "ok" => vres[id].status = 500
            /\ (/\ vres[id].status = 200
                /\ vres[id].reason = "Record not found on blockchain")
               => vres[id].onLedger = "none"

(***************************************************************************)
(* The user controller (the second half of record.controller.js), the user *)
(* service (services/user.service.js) and the migration script             *)
(* (scripts/migrate-users-to-blockchain.js), for the user 501.             *)
(***************************************************************************)
Emails == {"j@x", "k@x", "l@x"}

UpdateReqs == 1..NumUpdates

\* the row RETURNING * gives, in the column order of ci_erp_users
UserRow(email) ==
    JObj(<<KV("user_id", JStr("501")), KV("email", JStr(email)),
           KV("password", JStr("p1")), KV("last_login_ip", JStr("ip1"))>>)

\* whether user_chain_records holds a row for the user and the digest
\* whose blockchain_tx_id is null
stuckRow(hash) ==
    \E i \in 1..Len(chainRecords) :
        /\ chainRecords[i].user_id = <<5, 0, 1>>
        /\ chainRecords[i].hash_value = hash
        /\ chainRecords[i].blockchain_tx_id = "null"

\* a response: the operation, the HTTP status, the digest it computed,
\* whether the ledger store it made returned (a 2xx response then carries
\* an onChainProof, otherwise onChainProof is null), and whether the audit
\* row of the digest was stuck without a transaction id when it began
Response(op, status, hash, stored) ==
    [op |-> op, status |-> status, hash |-> hash, stored |-> stored,
     stuck |-> stuckRow(hash)]

NoUserResponse == Response("none", 0, "", FALSE)

NoVerification ==
    [status |-> 0, verified |-> FALSE, reason |-> "", currentHash |-> "",
     onLedger |-> "none", latest |-> 0]

InitUsers ==
    /\ users = JNull
    /\ chainRecords = <<>>
    /\ storeCalls = <<>>
    /\ uresp = NoUserResponse
    /\ uverify = NoVerification
    /\ upc = [r \in UpdateReqs |-> "idle"]
    /\ uhash = [r \in UpdateReqs |-> ""]
    /\ ustored = [r \in UpdateReqs |-> FALSE]
    /\ ustatus = [r \in UpdateReqs |-> 0]

\* a user_chain_records table created without its UNIQUE constraint
uniqueViolationNever(user_id, hash_value) == FALSE

\* CONSTRAINT unique_user_operation UNIQUE (user_id, hash_value)
uniqueViolation(user_id, hash_value) ==
    \E i \in 1..Len(chainRecords) :
        /\ chainRecords[i].user_id = user_id
        /\ chainRecords[i].hash_value = hash_value

\* userService.createChainRecord: the INSERT into user_chain_records
createChainRecord(user_id, hash_value, stored, operation_type) ==
    Append(chainRecords,
           [user_id |-> user_id, hash_value |-> hash_value,
            blockchain_tx_id |-> IF stored THEN "tx" ELSE "null",
            operation_type |-> operation_type])

\* steps 2 to 4 of createUser and of updateUser: the hash of the row is
\* stored on the ledger, a failure of the ledger is logged and swallowed,
\* and the chain record is inserted; a refused INSERT answers 500
RecordUserMutation(op, row, networkOk, okStatus) ==
    LET hash == userComputeHash(row)
        ok == storeSucceeds(UserId, networkOk)
    IN /\ storeCalls' = Append(storeCalls, [id |-> UserId, hash |-> hash])
       /\ storeRecordHash(UserId, hash, ok)
       /\ IF uniqueViolation(UserId, hash)
          THEN /\ uresp' = Response(op, 500, hash, ok)
               /\ UNCHANGED chainRecords
          ELSE /\ uresp' = Response(op, okStatus, hash, ok)
               /\ chainRecords' = createChainRecord(UserId, hash, ok, op)

\* POST /api/users
createUser(email, networkOk) ==
    /\ users = JNull
    /\ Len(storeCalls) < MaxStoreCalls
    /\ users' = UserRow(email)
    /\ RecordUserMutation("INSERT", UserRow(email), networkOk, 201)
    /\ UNCHANGED uverify
    /\ UNCHANGED notUserVars

\* PUT /api/users/:userId
updateUser(email, networkOk) ==
    /\ users # JNull
    /\ Len(storeCalls) < MaxStoreCalls
    /\ users' = UserRow(email)
    /\ RecordUserMutation("UPDATE", UserRow(email), networkOk, 200)
    /\ UNCHANGED uverify
    /\ UNCHANGED notUserVars

\* new Date().toISOString() in deleteUser: a clock that has ticked with
\* every ledger store made so far
toISOString == "t" \o ToString(Len(storeCalls))

\* deletionData of deleteUser for the row userToDelete
deletionData(userToDelete) ==
    JObj(<<KV("user_id", JStr("501")), KV("deleted_at", JStr(toISOString)),
           KV("action", JStr("DELETE")), KV("previous_data", userToDelete)>>)

\* a deleteUser that removes the row whether or not the audit row was saved
deleteUserRowAlways(persisted) == JNull

\* step 4 of deleteUser, userService.deleteUser: reached when
\* createChainRecord has not thrown
deleteUserRow(persisted) == IF persisted THEN JNull ELSE users

\* DELETE /api/users/:userId: the hash of the deletion record is stored
\* (a failure is swallowed), the chain record inserted, and the row
\* deleted; an INSERT that fails (refused by the constraint, or the
\* database unreachable: dbOk false) answers 500 and leaves the row
deleteUser(networkOk, dbOk) ==
    /\ users # JNull
    /\ Len(storeCalls) < MaxStoreCalls
    /\ LET hash == userComputeHash(deletionData(users))
           ok == storeSucceeds(UserId, networkOk)
           persisted == dbOk /\ ~uniqueViolation(UserId, hash)
       IN /\ storeCalls' = Append(storeCalls, [id |-> UserId, hash |-> hash])
          /\ storeRecordHash(UserId, hash, ok)
          /\ chainRecords' =
                IF persisted
                THEN createChainRecord(UserId, hash, ok, "DELETE")
                ELSE chainRecords
          /\ uresp' = Response("DELETE", IF persisted THEN 200 ELSE 500,
                               hash, ok)
          /\ users' = deleteUserRow(persisted)
    /\ UNCHANGED uverify
    /\ UNCHANGED notUserVars

\* POST /api/users/:userId/submit-to-blockchain: a store that throws
\* answers 500 before any chain record is written
submitToBlockchain(networkOk) ==
    /\ users # JNull
    /\ Len(storeCalls) < MaxStoreCalls
    /\ LET hash == userComputeHash(users)
           ok == storeSucceeds(UserId, networkOk)
       IN /\ storeCalls' = Append(storeCalls, [id |-> UserId, hash |-> hash])
          /\ storeRecordHash(UserId, hash, ok)
          /\ IF ok /\ ~uniqueViolation(UserId, hash)
             THEN /\ chainRecords' =
                        createChainRecord(UserId, hash, TRUE, "MANUAL_SUBMIT")
                  /\ uresp' = Response("MANUAL_SUBMIT", 200, hash, TRUE)
             ELSE /\ uresp' = Response("MANUAL_SUBMIT", 500, hash, ok)
                  /\ UNCHANGED chainRecords
    /\ UNCHANGED <<users, uverify>>
    /\ UNCHANGED notUserVars

\* userIdToNumericId: the first 12 hexadecimal digits of the md5 digest of
\* the id, an injective stand-in
userIdToNumericId(userId) == 65536 + parseIntHex(userId)

\* processUser of the migration: a user whose (user_id, hash) is already
\* in user_chain_records is skipped; otherwise the hash is stored
\* (storeOnPolygon in polygon mode, the script's own Map otherwise) and
\* the chain record saved
processUser(networkOk) ==
    /\ users # JNull
    /\ LET hash == migrationHash(users)
           ok == bmode # "polygon" \/ networkOk
       IN IF uniqueViolation(UserId, hash)
          THEN /\ uresp' = Response("INITIAL_MIGRATION", 304, hash, FALSE)
               /\ UNCHANGED <<storeCalls, chainRecords, changes>>
          ELSE /\ Len(storeCalls) < MaxStoreCalls
               /\ storeCalls' =
                     Append(storeCalls, [id |-> UserId, hash |-> hash])
               /\ changes' =
                     IF ok /\ bmode = "polygon"
                     THEN Append(changes,
                                 [userId |-> userIdToNumericId(UserId),
                                  hash |-> hash, status |-> 0])
                     ELSE changes
               /\ IF ok
                  THEN /\ chainRecords' =
                             createChainRecord(UserId, hash, TRUE,
                                               "INITIAL_MIGRATION")
                       /\ uresp' =
                             Response("INITIAL_MIGRATION", 200, hash, TRUE)
                  ELSE /\ uresp' =
                             Response("INITIAL_MIGRATION", 500, hash, FALSE)
                       /\ UNCHANGED chainRecords
    /\ UNCHANGED <<users, uverify, ledgerVars>>
    /\ UNCHANGED notUserVars

\* userService.getLatestChainRecord: ORDER BY created_at DESC LIMIT 1
getLatestChainRecord(user_id) ==
    LET rows == {i \in 1..Len(chainRecords) :
                    chainRecords[i].user_id = user_id}
    IN IF rows = {} THEN 0
       ELSE CHOOSE i \in rows : \A j \in rows : j <= i

\* GET /api/users/:userId/verify: the hash of the current row is compared
\* with the hash_value of the latest chain record
verifyUser ==
    /\ users # JNull
    /\ LET currentHash == userComputeHash(users)
           latestRecord == getLatestChainRecord(UserId)
           isValid == currentHash = chainRecords[latestRecord].hash_value
       IN uverify' =
             [status |-> 200,
              verified |-> latestRecord # 0 /\ isValid,
              reason |->
                 IF latestRecord = 0
                 THEN "No blockchain record found for this user"
                 ELSE IF isValid
                 THEN "Data integrity verified - hash matches blockchain record"
                 ELSE "Data has been modified since last blockchain submission",
              currentHash |-> currentHash,
              onLedger |-> storedOnLedger(UserId),
              latest |-> latestRecord]
    /\ UNCHANGED <<users, chainRecords, storeCalls, uresp, ledgerVars, changes>>
    /\ UNCHANGED notUserVars

NextUsers ==
    \/ \E email \in Emails, networkOk \in BOOLEAN :
          createUser(email, networkOk)
    \/ \E email \in Emails, networkOk \in BOOLEAN :
          updateUser(email, networkOk)
    \/ \E networkOk \in BOOLEAN, dbOk \in BOOLEAN :
          deleteUser(networkOk, dbOk)
    \/ \E networkOk \in BOOLEAN : submitToBlockchain(networkOk)
    \/ \E networkOk \in BOOLEAN : processUser(networkOk)
    \/ verifyUser

(***************************************************************************)
(* updateUser requests that overlap: a request is a sequence of steps      *)
(* separated by its awaits (the UPDATE of the row, the ledger store, the   *)
(* INSERT of the chain record), and the steps of two requests interleave.  *)
(***************************************************************************)
notUpdateVars ==
    <<hashVars, fabricVars, retryVars, routeCtlVars, recordVars, uverify,
      nonceVars>>

\* steps 1 and 2: userService.updateUser writes the row, and the hash of
\* the row it returns is computed
UpdateRow(r, email) ==
    /\ upc[r] = "idle"
    /\ users # JNull
    /\ users' = UserRow(email)
    /\ uhash' = [uhash EXCEPT ![r] = userComputeHash(UserRow(email))]
    /\ upc' = [upc EXCEPT ![r] = "updated"]
    /\ UNCHANGED <<chainRecords, storeCalls, uresp, ustored, ustatus,
                   ledgerVars, changes>>
    /\ UNCHANGED notUpdateVars

\* step 3: the hash is stored on the ledger; a failure is swallowed
UpdateStore(r, networkOk) ==
    /\ upc[r] = "updated"
    /\ LET ok == storeSucceeds(UserId, networkOk)
       IN /\ storeCalls' =
                Append(storeCalls, [id |-> UserId, hash |-> uhash[r]])
          /\ storeRecordHash(UserId, uhash[r], ok)
          /\ ustored' = [ustored EXCEPT ![r] = ok]
    /\ upc' = [upc EXCEPT ![r] = "stored"]
    /\ UNCHANGED <<users, chainRecords, uresp, uhash, ustatus>>
    /\ UNCHANGED notUpdateVars

\* step 4 and the response: the chain record is inserted; a refused
\* INSERT answers 500
UpdateRespond(r) ==
    /\ upc[r] = "stored"
    /\ IF uniqueViolation(UserId, uhash[r])
       THEN /\ ustatus' = [ustatus EXCEPT ![r] = 500]
            /\ uresp' = Response("UPDATE", 500, uhash[r], ustored[r])
            /\ UNCHANGED chainRecords
       ELSE /\ ustatus' = [ustatus EXCEPT ![r] = 200]
            /\ uresp' = Response("UPDATE", 200, uhash[r], ustored[r])
            /\ chainRecords' =
                  createChainRecord(UserId, uhash[r], ustored[r], "UPDATE")
    /\ upc' = [upc EXCEPT ![r] = "done"]
    /\ UNCHANGED <<users, storeCalls, uhash, ustored, ledgerVars, changes>>
    /\ UNCHANGED notUpdateVars

NextUpdates ==
    \/ \E email \in Emails, networkOk \in BOOLEAN :
          createUser(email, networkOk)
    \/ \E r \in UpdateReqs, email \in Emails : UpdateRow(r, email)
    \/ \E r \in UpdateReqs, networkOk \in BOOLEAN : UpdateStore(r, networkOk)
    \/ \E r \in UpdateReqs : UpdateRespond(r)

(***************************************************************************)
(* C27.  No false tamper alarm under concurrent updates: when two          *)
(* updateUser requests for the same user overlap and both finish with      *)
(* successful ledger stores, and the row is not changed afterwards, the    *)
(* digest the mock ledger holds for the user and the hash of the latest    *)
(* audit row both equal the digest of the final user row, so that          *)
(* verification reports valid.                                             *)
(***************************************************************************)
C27_NoFalseTamperAlarm ==
    (/\ bmode = "mock"
     /\ \A r \in UpdateReqs :
           upc[r] = "done" /\ ustored[r] /\ ustatus[r] = 200)
    => /\ mockLedger[UserId] = userComputeHash(users)
       /\ chainRecords[getLatestChainRecord(UserId)].hash_value =
             userComputeHash(users)

(***************************************************************************)
(* C11.  Best-effort degradation: when the ledger store fails during       *)
(* createRecord, createUser, updateUser or deleteUser, an audit row for    *)
(* the mutation is still persisted with the computed digest and a null     *)
(* transaction reference, and the caller gets a result that shows the      *)
(* ledger reference is absent.                                             *)
(***************************************************************************)
C11_BestEffortDegradation ==
    /\ \A id \in RecordIds :
          (records[id].row /\ recCreated[id] = JNull) =>
              records[id].hash_value # "null"
    /\ (uresp.op \in {"INSERT", "UPDATE", "DELETE"} /\ ~uresp.stored) =>
          /\ uresp.status \in {200, 201}
          /\ \E i \in 1..Len(chainRecords) :
                /\ chainRecords[i].user_id = UserId
                /\ chainRecords[i].hash_value = uresp.hash
                /\ chainRecords[i].blockchain_tx_id = "null"

(***************************************************************************)
(* C12.  Verify consults the ledger: verification of a user answers        *)
(* valid = false with a not-found reason whenever the ledger holds no      *)
(* entry for the user, also when only the off-chain audit row exists; it   *)
(* answers valid = true only when the digest on the ledger equals the      *)
(* digest of the current snapshot.                                         *)
(***************************************************************************)
C12_VerifyConsultsLedger ==
    uverify.status = 200 =>
        /\ uverify.onLedger = "none" =>
              /\ ~uverify.verified
              /\ uverify.reason = "No blockchain record found for this user"
        /\ uverify.verified => uverify.onLedger = uverify.currentHash

(***************************************************************************)
(* C15.  Audit-record uniqueness: after any sequence of createUser,        *)
(* updateUser, deleteUser, submitToBlockchain and migration operations, no *)
(* two rows of user_chain_records have the same (user_id, hash_value).     *)
(***************************************************************************)
C15_AuditUniqueness ==
    \A i, j \in 1..Len(chainRecords) :
        i # j =>
            \/ chainRecords[i].user_id # chainRecords[j].user_id
            \/ chainRecords[i].hash_value # chainRecords[j].hash_value

\* an operation whose ledger store returned has tried to insert a second row
\* for a (user_id, hash_value) the table holds, next to other rows
C15_Witness ==
    /\ uresp.status = 500
    /\ uresp.stored
    /\ uniqueViolation(UserId, uresp.hash)
    /\ Len(chainRecords) >= 2

(***************************************************************************)
(* C20.  Resubmission recovers stuck records: when submitToBlockchain is   *)
(* called for a user whose audit row for the current digest has a null     *)
(* transaction reference, and the ledger store succeeds, the audit row for *)
(* that (user, digest) carries the new transaction reference afterwards    *)
(* and the caller gets a success result.                                   *)
(***************************************************************************)
C20_ResubmissionRecovers ==
    (uresp.op = "MANUAL_SUBMIT" /\ uresp.stored /\ uresp.stuck) =>
        /\ uresp.status = 200
        /\ \E i \in 1..Len(chainRecords) :
              /\ chainRecords[i].user_id = UserId
              /\ chainRecords[i].hash_value = uresp.hash
              /\ chainRecords[i].blockchain_tx_id # "null"

(***************************************************************************)
(* C21.  The mock ledger is latest-write-wins: in mock mode getRecordHash  *)
(* of an id returns the digest of the most recently completed store for    *)
(* the id, and null when no store for it has completed; a store on an id   *)
(* that has an entry replaces the entry and does not fail.                 *)
(***************************************************************************)
C21_MockLatestWriteWins ==
    bmode = "mock" =>
        /\ \A id \in RecordIds :
              getRecordHash(id) =
                  IF recCreated[id] = JNull THEN "none"
                  ELSE computeHash(recCreated[id])
        /\ storeCalls = <<>> => getRecordHash(UserId) = "none"
        /\ uresp.op \in {"INSERT", "UPDATE", "DELETE", "MANUAL_SUBMIT"} =>
              /\ uresp.stored
              /\ getRecordHash(UserId) = uresp.hash

\* a store has replaced the entry an earlier store wrote for the user
C21_Witness ==
    /\ bmode = "mock"
    /\ uresp.op = "UPDATE"
    /\ Len(storeCalls) >= 2
    /\ storeCalls[Len(storeCalls) - 1].hash # uresp.hash
    /\ mockLedger[UserId] = uresp.hash

(***************************************************************************)
(* C26.  Delete ordering: deleteUser removes the user row only after the   *)
(* deletion digest has been sent to the ledger and the DELETE audit row    *)
(* has been persisted; when persisting the audit row fails, the user row   *)
(* is not deleted.                                                         *)
(***************************************************************************)
C26_DeleteOrdering ==
    [][(users # JNull /\ users' = JNull) =>
          /\ uresp'.op = "DELETE" /\ uresp'.status = 200
          /\ storeCalls' # <<>>
          /\ storeCalls'[Len(storeCalls')] =
                 [id |-> UserId, hash |-> uresp'.hash]
          /\ chainRecords' # <<>>
          /\ chainRecords'[Len(chainRecords')].operation_type = "DELETE"
          /\ chainRecords'[Len(chainRecords')].hash_value = uresp'.hash]_vars

\* a deleteUser whose audit row could not be saved has left the user row
C26_Witness ==
    /\ uresp.op = "DELETE"
    /\ uresp.status = 500
    /\ users # JNull
    /\ storeCalls # <<>>
    /\ storeCalls[Len(storeCalls)].hash = uresp.hash

(***************************************************************************)
(* C30.  Migration and verification agree: a user anchored by the          *)
(* migration script and not modified afterwards is reported verified by    *)
(* verifyUser: the digest the migration stores in the audit row equals the *)
(* digest verifyUser computes from the same, unmodified user row.          *)
(***************************************************************************)
C30_MigrationVerifyAgree ==
    LET latestRecord == getLatestChainRecord(UserId)
    IN (/\ users # JNull
        /\ uverify.status = 200
        /\ uverify.latest = latestRecord
        /\ uverify.currentHash = userComputeHash(users)
        /\ latestRecord # 0
        /\ chainRecords[latestRecord].operation_type = "INITIAL_MIGRATION"
        /\ chainRecords[latestRecord].hash_value = migrationHash(users))
       => uverify.verified

(***************************************************************************)
(* C4.  Idempotence of mutation recording: recording a mutation twice for  *)
(* the same entity with an unchanged snapshot gives one audit record for   *)
(* the (entity, digest) and one ledger Store call; the second call is a    *)
(* no-op: no two consecutive Store calls carry the same entity and digest, *)
(* and no (entity, digest) has two audit records.                          *)
(***************************************************************************)
C4_Idempotence ==
    /\ \A i \in 1..(Len(storeCalls) - 1) : storeCalls[i] # storeCalls[i + 1]
    /\ \A i, j \in 1..Len(chainRecords) :
          (/\ chainRecords[i].user_id = chainRecords[j].user_id
           /\ chainRecords[i].hash_value = chainRecords[j].hash_value)
          => i = j

(***************************************************************************)
(* The nonce manager of config/blockchain.js: initNonce reads the pending  *)
(* transaction count once and caches it, getAndIncrementNonce hands out    *)
(* the cached value and increments it, resetNonce clears the cache.  A     *)
(* submission calls initNonce, takes a nonce and sends its transaction     *)
(* with it; the chain accepts the transaction that carries the signer's    *)
(* next nonce.  The wallet's key may also sign transactions elsewhere.     *)
(***************************************************************************)
NonceCalls == 1..NumNonceCalls

InitNonce ==
    /\ currentNonce = -1
    /\ nonceInitialized = FALSE
    /\ npc = [c \in NonceCalls |-> "idle"]
    /\ nread = [c \in NonceCalls |-> -1]
    /\ nheld = [c \in NonceCalls |-> -1]
    /\ nseen = [c \in NonceCalls |-> -1]
    /\ nexternal = 0

\* initNonce(), up to its await: an initialized manager returns at once
NInitNonce(c) ==
    /\ npc[c] = "idle"
    /\ npc' = [npc EXCEPT ![c] =
          IF nonceInitialized THEN "ready" ELSE "reading"]
    /\ UNCHANGED <<currentNonce, nonceInitialized, nread, nheld, nseen,
                   nexternal, minedNonce>>
    /\ UNCHANGED notNonceVars

\* provider.getTransactionCount(wallet.address, "pending") answers
NCountRead(c) ==
    /\ npc[c] = "reading"
    /\ nread' = [nread EXCEPT ![c] = getTransactionCount]
    /\ npc' = [npc EXCEPT ![c] = "assign"]
    /\ UNCHANGED <<currentNonce, nonceInitialized, nheld, nseen, nexternal,
                   minedNonce>>
    /\ UNCHANGED notNonceVars

\* initNonce() after its await: the count is cached
NCached(c) ==
    /\ npc[c] = "assign"
    /\ currentNonce' = nread[c]
    /\ nonceInitialized' = TRUE
    /\ npc' = [npc EXCEPT ![c] = "ready"]
    /\ UNCHANGED <<nread, nheld, nseen, nexternal, minedNonce>>
    /\ UNCHANGED notNonceVars

\* getAndIncrementNonce()
getAndIncrementNonce(c) ==
    /\ npc[c] = "ready"
    /\ nheld' = [nheld EXCEPT ![c] = currentNonce]
    /\ nseen' = [nseen EXCEPT ![c] = getTransactionCount]
    /\ currentNonce' = IF currentNonce = -1 THEN 1 ELSE currentNonce + 1
    /\ npc' = [npc EXCEPT ![c] = "held"]
    /\ UNCHANGED <<nonceInitialized, nread, nexternal, minedNonce>>
    /\ UNCHANGED notNonceVars

\* the transaction is sent with the nonce held: the chain executes it when
\* it carries the signer's next nonce and refuses it otherwise
NSubmit(c) ==
    /\ npc[c] = "held"
    /\ IF nheld[c] = minedNonce
       THEN /\ minedNonce' = minedNonce + 1
            /\ npc' = [npc EXCEPT ![c] = "confirmed"]
       ELSE /\ npc' = [npc EXCEPT ![c] = "refused"]
            /\ UNCHANGED minedNonce
    /\ UNCHANGED <<currentNonce, nonceInitialized, nread, nheld, nseen,
                   nexternal>>
    /\ UNCHANGED notNonceVars

\* resetNonce()
resetNonce ==
    /\ nonceInitialized
    /\ nonceInitialized' = FALSE
    /\ currentNonce' = -1
    /\ UNCHANGED <<npc, nread, nheld, nseen, nexternal, minedNonce>>
    /\ UNCHANGED notNonceVars

\* the wallet's key signs a transaction outside the API
ExternalTransaction ==
    /\ nexternal < MaxExternal
    /\ nexternal' = nexternal + 1
    /\ minedNonce' = minedNonce + 1
    /\ UNCHANGED <<currentNonce, nonceInitialized, npc, nread, nheld, nseen>>
    /\ UNCHANGED notNonceVars

NextNonce ==
    \/ \E c \in NonceCalls :
          \/ NInitNonce(c)
          \/ NCountRead(c)
          \/ NCached(c)
          \/ getAndIncrementNonce(c)
          \/ NSubmit(c)
    \/ resetNonce
    \/ ExternalTransaction

\* the callers and the chain, while nobody calls resetNonce
NextNonceNoReset ==
    \/ \E c \in NonceCalls :
          \/ NInitNonce(c)
          \/ NCountRead(c)
          \/ NCached(c)
          \/ getAndIncrementNonce(c)
          \/ NSubmit(c)
    \/ ExternalTransaction

(***************************************************************************)
(* C29.  Nonce manager uniqueness: in every interleaving of concurrent     *)
(* callers that each run initNonce and then getAndIncrementNonce, with no  *)
(* resetNonce in between, no two getAndIncrementNonce calls return the     *)
(* same nonce and currentNonce never decreases.                            *)
(***************************************************************************)
C29_NonceUniqueness ==
    [][/\ \A c, d \in NonceCalls :
            (c # d /\ nheld'[c] # -1 /\ nheld'[d] # -1)
            => nheld'[c] # nheld'[d]
       /\ currentNonce' >= currentNonce]_vars

(***************************************************************************)
(* C17.  Fresh nonce per attempt: the nonce used for a submission attempt  *)
(* is the network's pending transaction count for the signer read          *)
(* immediately before the attempt; a value obtained earlier is never       *)
(* reused, so a nonce advanced externally is picked up.                    *)
(***************************************************************************)
C17_FreshNonce ==
    \A c \in NonceCalls : nheld[c] # -1 => nheld[c] = nseen[c]

(***************************************************************************)
(* Specifications.                                                         *)
(***************************************************************************)
InitSpecHash == InitHash /\ InitFabric /\ InitRetry /\ InitRoutes
    /\ InitLedgerIdle /\ InitRecords /\ InitUsers /\ InitNonce
SpecHash == InitSpecHash /\ [][NextHash]_vars

InitSpecFabric == InitHashIdle /\ InitFabric /\ InitRetry /\ InitRoutes
    /\ InitLedgerIdle /\ InitRecords /\ InitUsers /\ InitNonce
SpecFabric == InitSpecFabric /\ [][NextFabric]_vars

InitSpecRetry == InitHashIdle /\ InitFabric /\ InitRetry /\ InitRoutes
    /\ InitLedgerIdle /\ InitRecords /\ InitUsers /\ InitNonce
SpecRetry == InitSpecRetry /\ [][NextRetry]_vars

InitSpecRoutes == InitHashIdle /\ InitFabric /\ InitRetry /\ InitRoutes
    /\ InitLedgerIdle /\ InitRecords /\ InitUsers /\ InitNonce
SpecRoutes == InitSpecRoutes /\ [][NextRoutes]_vars
FairSpecRoutes == SpecRoutes /\ FairRoutes

InitSpecRecords ==
    /\ InitHashIdle /\ InitFabric /\ InitRetry /\ InitRoutes
    /\ InitLedger /\ InitRecords /\ InitUsers /\ InitNonce
SpecRecords == InitSpecRecords /\ [][NextRecords]_vars

InitSpecUsers ==
    /\ InitHashIdle /\ InitFabric /\ InitRetry /\ InitRoutes
    /\ InitLedger /\ InitRecords /\ InitUsers /\ InitNonce
SpecUsers == InitSpecUsers /\ [][NextUsers]_vars

SpecUpdates == InitSpecUsers /\ [][NextUpdates]_vars

InitSpecNonce ==
    /\ InitHashIdle /\ InitFabric /\ InitRetry /\ InitRoutes
    /\ InitLedgerIdle /\ InitRecords /\ InitUsers /\ InitNonce
SpecNonce == InitSpecNonce /\ [][NextNonce]_vars

SpecNonceNoReset == InitSpecNonce /\ [][NextNonceNoReset]_vars

====
